---- MODULE Spec2Model ----
(***************************************************************************)
(* Model of the blog part of the portfolio site:                           *)
(*   - the post registry (lib/blogs: blogs, getBlogBySlug)                 *)
(*   - the post page component BlogPostPage (app/blog/[slug]/page.tsx)     *)
(*     with its content loader (the useEffect that fetches the body)       *)
(*   - the content-resolution endpoint GET /api/content/[filename], with   *)
(*     the route parameter, path.join and the server's files               *)
(*   - the renderer parseMarkdown (lib/markdown), pass by pass             *)
(*   - the homepage carousel of the posts (components/Blogs)               *)
(* Spec is the page over every registry; SpecRender is the page over one   *)
(* post whose body is any of a family of Markdown texts; SpecEndpoint is   *)
(* the endpoint under requests for arbitrary names; SpecSite is the page   *)
(* over the full registry with fair scheduling; SpecCarousel is the        *)
(* carousel over registries of up to MaxPosts posts.                       *)
(* Strings are TLA+ strings; JavaScript's null, undefined and string       *)
(* values are tagged records so that "absent" and "empty" stay distinct.   *)
(***************************************************************************)
EXTENDS Integers, Sequences, FiniteSets, TLC

VARIABLES
    blogs,      \* the registry: sequence of post records, in source order
    files,      \* the server's files: absolute path -> text
    slug,       \* params.slug of the mounted page instance
    content,    \* useState<string | null>(null) of the mounted instance
    loading,    \* useState(true) of the mounted instance
    deps,       \* the [blog] dependency the effect last ran with
    view,       \* number of the mounted page instance (grows on navigation)
    fetches,    \* every fetch issued so far, with its progress
    console,    \* what console.error has logged
    currentPage,\* useState(0) of the homepage carousel
    answer      \* the last answer to a request sent by another HTTP client

vars == <<blogs, files, slug, content, loading, deps, view, fetches, console,
          currentPage, answer>>

----------------------------------------------------------------------------
(* Bounds *)

MaxBlogs == 2       \* longest registry drawn in Init
MaxViews == 2       \* page instances mounted in a row (navigations + 1)
MaxItems == 3       \* longest run of list lines in a rendered body
MaxBlocks == 3      \* most blocks between blank lines in a rendered body
MaxPosts == 13      \* most posts in the list the carousel pages through

----------------------------------------------------------------------------
(* JavaScript values *)

Null == [type |-> "null"]
Undefined == [type |-> "undefined"]
Str(s) == [type |-> "string", val |-> s]

IsStr(v) == v.type = "string"

\* Truthy as a test for a string: the empty string passes
TruthyAnyString(v) == IsStr(v)

\* JavaScript truthiness of a string | null | undefined value
Truthy(v) == IsStr(v) /\ v.val # ""

\* OrElse without the fallback: a falsy left operand is kept
OrElseKeepsLeft(a, b) == a

\* a || b
OrElse(a, b) == IF Truthy(a) THEN a ELSE b

\* number values: an integer or NaN
Num(n) == [type |-> "number", val |-> n]
NaN == [type |-> "number", nan |-> TRUE]

\* a + n for an integer n
JsAdd(a, n) == IF a = NaN THEN NaN ELSE Num(a.val + n)

\* a % n for an integer n: NaN for a zero divisor, the sign of the dividend
JsRem(a, n) ==
    IF a = NaN \/ n = 0 THEN NaN
    ELSE IF a.val >= 0 THEN Num(a.val % n)
    ELSE Num(0 - ((0 - a.val) % n))

----------------------------------------------------------------------------
(* Strings *)

\* SANY cannot lex U+0060 inside a string literal: the model writes the
\* backtick as this character, which is not otherwise used in any input
Backtick == "~"
Fence == Backtick \o Backtick \o Backtick

Char(s, i) == SubSeq(s, i, i)
Take(s, n) == SubSeq(s, 1, n)
Drop(s, n) == SubSeq(s, n + 1, Len(s))
MatchAt(s, i, p) == i + Len(p) - 1 <= Len(s) /\ SubSeq(s, i, i + Len(p) - 1) = p
StartsWith(s, p) == MatchAt(s, 1, p)

Min(S) == CHOOSE m \in S : \A k \in S : m <= k
Max(S) == CHOOSE m \in S : \A k \in S : m >= k

\* String.prototype.indexOf(p, from), 1-based; 0 when p does not occur
IndexFrom(s, p, from) ==
    LET hits == { k \in from..(Len(s) - Len(p) + 1) : MatchAt(s, k, p) }
    IN IF hits = {} THEN 0 ELSE Min(hits)

Contains(s, p) == IndexFrom(s, p, 1) # 0

\* String.prototype.split(sep), for a separator that is not empty
RECURSIVE SplitBy(_, _)
SplitBy(s, sep) ==
    LET k == IndexFrom(s, sep, 1)
    IN IF k = 0 THEN << s >>
       ELSE << Take(s, k - 1) >> \o SplitBy(Drop(s, k + Len(sep) - 1), sep)

\* Array.prototype.join(sep)
RECURSIVE JoinBy(_, _)
JoinBy(segs, sep) ==
    IF segs = <<>> THEN ""
    ELSE IF Len(segs) = 1 THEN segs[1]
    ELSE segs[1] \o sep \o JoinBy(Tail(segs), sep)

\* U+000B, written as the character itself between the quotes
VerticalTab == ""

\* \s (the ASCII part) and the line terminators of ^, $ and .
WhiteSpace == { " ", "\t", "\n", "\r", "\f", VerticalTab }
LineTerminators == { "\n", "\r" }

\* \w
WordChars ==
    { "a", "b", "c", "d", "e", "f", "g", "h", "i", "j", "k", "l", "m",
      "n", "o", "p", "q", "r", "s", "t", "u", "v", "w", "x", "y", "z",
      "A", "B", "C", "D", "E", "F", "G", "H", "I", "J", "K", "L", "M",
      "N", "O", "P", "Q", "R", "S", "T", "U", "V", "W", "X", "Y", "Z",
      "0", "1", "2", "3", "4", "5", "6", "7", "8", "9", "_" }

\* String.prototype.trim
Trim(s) ==
    LET ink == { k \in 1..Len(s) : Char(s, k) \notin WhiteSpace }
    IN IF ink = {} THEN "" ELSE SubSeq(s, Min(ink), Max(ink))

\* length of the longest run of characters of set cs that starts at i
RunLength(s, i, cs) ==
    LET stops == { k \in i..Len(s) : Char(s, k) \notin cs }
    IN IF stops = {} THEN Len(s) - i + 1 ELSE Min(stops) - i

----------------------------------------------------------------------------
(* lib/markdown: escapeHtml and parseMarkdown *)

EscapeChar(c) ==
    CASE c = "&" -> "&amp;"
      [] c = "<" -> "&lt;"
      [] c = ">" -> "&gt;"
      [] c = "\"" -> "&quot;"
      [] c = "'" -> "&#039;"
      [] OTHER -> c

RECURSIVE escapeHtml(_)
escapeHtml(text) ==
    IF text = "" THEN ""
    ELSE EscapeChar(Char(text, 1)) \o escapeHtml(Drop(text, 1))

\* one match of /```(\w+)?\n([\s\S]*?)```/ starting at i, if there is one
CodeBlockAt(s, i) ==
    LET w == RunLength(s, i + 3, WordChars)
        nl == i + 3 + w
        close == IndexFrom(s, Fence, nl + 1)
    IN IF MatchAt(s, i, Fence) /\ MatchAt(s, nl, "\n") /\ close # 0
       THEN [found |-> TRUE, lang |-> SubSeq(s, i + 3, nl - 1),
             code |-> SubSeq(s, nl + 1, close - 1), end |-> close + 2]
       ELSE [found |-> FALSE]

CodeBlockHtml(lang, code) ==
    "<pre class=\"bg-gray-900 text-gray-100 p-4 rounded-lg overflow-x-auto my-4\"><code class=\"language-"
        \o (IF lang = "" THEN "typescript" ELSE lang) \o "\">"
        \o escapeHtml(Trim(code)) \o "</code></pre>"

RECURSIVE CodeBlocks(_)
CodeBlocks(s) ==
    LET starts == { i \in 1..Len(s) : CodeBlockAt(s, i).found }
    IN IF starts = {} THEN s
       ELSE LET i == Min(starts)
                m == CodeBlockAt(s, i)
            IN Take(s, i - 1) \o CodeBlockHtml(m.lang, m.code)
                   \o CodeBlocks(Drop(s, m.end))

\* one match of /`([^`]+)`/ starting at i: the index of the closing backtick
InlineCodeAt(s, i) ==
    LET close == IndexFrom(s, Backtick, i + 1)
    IN IF MatchAt(s, i, Backtick) /\ close > i + 1 THEN close ELSE 0

RECURSIVE InlineCode(_)
InlineCode(s) ==
    LET starts == { i \in 1..Len(s) : InlineCodeAt(s, i) # 0 }
    IN IF starts = {} THEN s
       ELSE LET i == Min(starts)
                close == InlineCodeAt(s, i)
            IN Take(s, i - 1)
                   \o "<code class=\"px-2 py-1 bg-gray-100 dark:bg-gray-800 rounded text-sm\">"
                   \o SubSeq(s, i + 1, close - 1) \o "</code>"
                   \o InlineCode(Drop(s, close))

\* H3Line matching one to three number signs: /^#{1,3} (.*)$/
H3LineAnyLevel(line) ==
    IF StartsWith(line, "### ")
    THEN "<h3 id=\"" \o Drop(line, 4) \o "\" class=\"text-2xl font-bold mt-8 mb-4\">"
             \o Drop(line, 4) \o "</h3>"
    ELSE IF StartsWith(line, "## ")
    THEN "<h3 id=\"" \o Drop(line, 3) \o "\" class=\"text-2xl font-bold mt-8 mb-4\">"
             \o Drop(line, 3) \o "</h3>"
    ELSE IF StartsWith(line, "# ")
    THEN "<h3 id=\"" \o Drop(line, 2) \o "\" class=\"text-2xl font-bold mt-8 mb-4\">"
             \o Drop(line, 2) \o "</h3>"
    ELSE line

\* the three header replacements and the list-item replacement, on one line
H3Line(line) ==
    IF StartsWith(line, "### ")
    THEN "<h3 id=\"" \o Drop(line, 4) \o "\" class=\"text-2xl font-bold mt-8 mb-4\">"
             \o Drop(line, 4) \o "</h3>"
    ELSE line

\* H2Line without the id attribute
H2LineNoId(line) ==
    IF StartsWith(line, "## ")
    THEN "<h2 class=\"text-3xl font-bold mt-12 mb-6\">" \o Drop(line, 3) \o "</h2>"
    ELSE line

H2Line(line) ==
    IF StartsWith(line, "## ")
    THEN "<h2 id=\"" \o Drop(line, 3) \o "\" class=\"text-3xl font-bold mt-12 mb-6\">"
             \o Drop(line, 3) \o "</h2>"
    ELSE line

H1Line(line) ==
    IF StartsWith(line, "# ")
    THEN "<h1 class=\"text-4xl font-bold mt-8 mb-6\">" \o Drop(line, 2) \o "</h1>"
    ELSE line

LiLine(line) ==
    IF StartsWith(line, "- ")
    THEN "<li class=\"ml-4\">" \o Drop(line, 2) \o "</li>"
    ELSE line

LineOp(kind, line) ==
    CASE kind = "h3" -> H3Line(line)
      [] kind = "h2" -> H2Line(line)
      [] kind = "h1" -> H1Line(line)
      [] kind = "li" -> LiLine(line)

\* a replace with a /^...(.*)$/gm pattern: every line is rewritten on its own
RECURSIVE EachLine(_, _)
EachLine(s, kind) ==
    LET ends == { k \in 1..Len(s) : Char(s, k) \in LineTerminators }
    IN IF ends = {} THEN LineOp(kind, s)
       ELSE LET k == Min(ends)
            IN LineOp(kind, Take(s, k - 1)) \o Char(s, k)
                   \o EachLine(Drop(s, k), kind)

\* one match of /\*\*([^*]+)\*\*/ starting at i: the index of the closing pair
BoldAt(s, i) ==
    LET close == IndexFrom(s, "*", i + 2)
    IN IF MatchAt(s, i, "**") /\ close > i + 2 /\ MatchAt(s, close, "**")
       THEN close ELSE 0

\* BoldHtml that leaves the asterisks in
BoldHtmlKeepsMarks(text) ==
    "<strong class=\"font-bold\">**" \o text \o "**</strong>"

\* the replacement '<strong class="font-bold">$1</strong>'
BoldHtml(text) == "<strong class=\"font-bold\">" \o text \o "</strong>"

RECURSIVE Bold(_)
Bold(s) ==
    LET starts == { i \in 1..Len(s) : BoldAt(s, i) # 0 }
    IN IF starts = {} THEN s
       ELSE LET i == Min(starts)
                close == BoldAt(s, i)
            IN Take(s, i - 1) \o BoldHtml(SubSeq(s, i + 2, close - 1))
                   \o Bold(Drop(s, close + 1))

\* one iteration of (<li.*<\/li>\s*) starting at i: the index of its last
\* character, 0 when it does not match there
LiItemAt(s, i) ==
    LET eol == i + RunLength(s, i, { Char(s, k) : k \in 1..Len(s) } \ LineTerminators) - 1
        closes == { k \in (i + 3)..(eol - 4) : MatchAt(s, k, "</li>") }
    IN IF MatchAt(s, i, "<li") /\ closes # {}
       THEN LET e == Max(closes) + 4
            IN e + RunLength(s, e + 1, WhiteSpace)
       ELSE 0

\* LiRunEnd without the repetition: every item is a match of its own
LiRunEndOne(s, i) == LiItemAt(s, i)

\* the end of the whole match of /(<li.*<\/li>\s*)+/ that starts at i
RECURSIVE LiRunEnd(_, _)
LiRunEnd(s, i) ==
    LET e == LiItemAt(s, i)
    IN IF e # 0 /\ LiItemAt(s, e + 1) # 0 THEN LiRunEnd(s, e + 1) ELSE e

RECURSIVE Lists(_)
Lists(s) ==
    LET starts == { i \in 1..Len(s) : LiItemAt(s, i) # 0 }
    IN IF starts = {} THEN s
       ELSE LET i == Min(starts)
                e == LiRunEnd(s, i)
            IN Take(s, i - 1)
                   \o "<ul class=\"list-disc list-inside space-y-2 my-4\">"
                   \o SubSeq(s, i, e) \o "</ul>" \o Lists(Drop(s, e))

\* Split at every single newline
SplitOnNewline(s) == SplitBy(s, "\n")

\* html.split("\n\n")
Split(s) == SplitBy(s, "\n\n")

\* Paragraph without the test for a leading tag
ParagraphAlwaysWraps(para) ==
    IF Trim(para) = "" THEN ""
    ELSE "<div class=\"mb-4 leading-relaxed\">" \o para \o "</div>"

Paragraph(para) ==
    IF StartsWith(Trim(para), "<") THEN para
    ELSE IF Trim(para) = "" THEN ""
    ELSE "<div class=\"mb-4 leading-relaxed\">" \o para \o "</div>"

\* Array.prototype.join("\n") of the mapped blocks
RECURSIVE JoinParagraphs(_)
JoinParagraphs(ps) ==
    IF Len(ps) = 1 THEN Paragraph(ps[1])
    ELSE Paragraph(ps[1]) \o "\n" \o JoinParagraphs(Tail(ps))

\* the text after the code, header and bold passes
BeforeLists(markdown) ==
    LET code == CodeBlocks(markdown)
        inline == InlineCode(code)
        h3 == EachLine(inline, "h3")
        h2 == EachLine(h3, "h2")
        h1 == EachLine(h2, "h1")
    IN Bold(h1)

\* the text after every pass but the paragraph pass
BeforeParagraphs(markdown) == Lists(EachLine(BeforeLists(markdown), "li"))

\* parseMarkdown without the early return, wrapping what is left of the input
parseMarkdownWrapsEmpty(markdown) ==
    IF markdown = "" THEN "<div class=\"mb-4 leading-relaxed\"></div>"
    ELSE JoinParagraphs(Split(BeforeParagraphs(markdown)))

parseMarkdown(markdown) ==
    IF markdown = "" THEN ""
    ELSE JoinParagraphs(Split(BeforeParagraphs(markdown)))

----------------------------------------------------------------------------
(* Post registry *)

Blog(s, c, f) == [slug |-> s, content |-> c, contentFile |-> f]

\* a registry of six records (blogs.json is a static input)
FullRegistry ==
    << Blog("post", Undefined,       Str("post.md")),
       Blog("a",    Str("**bold**"), Undefined),
       Blog("A",    Str(""),         Undefined),
       Blog("soon", Undefined,       Undefined),
       Blog("both", Str("inline"),   Str("bold.md")),
       Blog("gone", Undefined,       Str("missing.md")) >>

\* the records the shorter registries are drawn from
BlogPool == { FullRegistry[i] : i \in 1..Len(FullRegistry) }

\* the records of FullRegistry at the positions of keep, from position i on,
\* in source order
RECURSIVE Records(_, _)
Records(i, keep) ==
    IF i > Len(FullRegistry) THEN <<>>
    ELSE (IF i \in keep THEN << FullRegistry[i] >> ELSE <<>>) \o Records(i + 1, keep)

\* the shorter registries: up to MaxBlogs records of FullRegistry
Registries ==
    { Records(1, keep) :
        keep \in { k \in SUBSET (1..Len(FullRegistry)) : Cardinality(k) <= MaxBlogs } }

\* slugs a URL may carry: those of the pool and one that matches no record
Slugs == { b.slug : b \in BlogPool } \cup { "POST" }

\* String.prototype.toLowerCase, for the ASCII letters
UpperCase == "ABCDEFGHIJKLMNOPQRSTUVWXYZ"
LowerCase == "abcdefghijklmnopqrstuvwxyz"

LowerChar(c) ==
    IF \E k \in 1..26 : Char(UpperCase, k) = c
    THEN Char(LowerCase, CHOOSE k \in 1..26 : Char(UpperCase, k) = c)
    ELSE c

RECURSIVE ToLower(_)
ToLower(str) ==
    IF str = "" THEN "" ELSE LowerChar(Char(str, 1)) \o ToLower(Drop(str, 1))

\* FindIndex with a comparison that ignores case
FindIndexIgnoreCase(bs, s) ==
    IF \E i \in 1..Len(bs) : ToLower(bs[i].slug) = ToLower(s)
    THEN CHOOSE i \in 1..Len(bs) :
            /\ ToLower(bs[i].slug) = ToLower(s)
            /\ \A j \in 1..(i - 1) : ToLower(bs[j].slug) # ToLower(s)
    ELSE 0

\* Array.prototype.find: the first element satisfying the test, else undefined
FindIndex(bs, s) ==
    IF \E i \in 1..Len(bs) : bs[i].slug = s
    THEN CHOOSE i \in 1..Len(bs) :
            /\ bs[i].slug = s
            /\ \A j \in 1..(i - 1) : bs[j].slug # s
    ELSE 0

getBlogBySlug(s) ==
    IF FindIndex(blogs, s) = 0 THEN Undefined ELSE blogs[FindIndex(blogs, s)]

\* getAllBlogSlugs that drops the last record
getAllBlogSlugsOffByOne == [i \in 1..(Len(blogs) - 1) |-> blogs[i].slug]

\* blogs.map((blog) => blog.slug)
getAllBlogSlugs == [i \in 1..Len(blogs) |-> blogs[i].slug]

\* the blog of the current render
blog == getBlogBySlug(slug)

\* blog?.contentFile, blog?.content
ContentFileOf(b) == IF b = Undefined THEN Undefined ELSE b.contentFile
ContentOf(b) == IF b = Undefined THEN Undefined ELSE b.content

----------------------------------------------------------------------------
(* Files of the server *)

\* process.cwd() and path.join(process.cwd(), "app", "data", "content")
Cwd == "/srv"
ContentDir == Cwd \o "/app/data/content"

\* three bodies in the content directory, one in a directory below it, and
\* two files of the application outside it
FileSystem ==
    [ p \in { ContentDir \o "/post.md", ContentDir \o "/bold.md",
              ContentDir \o "/empty.md", ContentDir \o "/drafts/note.md",
              Cwd \o "/app/data/blogs.json", Cwd \o "/.env" } |->
        CASE p = ContentDir \o "/post.md" -> "# Title"
          [] p = ContentDir \o "/bold.md" -> "**bold**"
          [] p = ContentDir \o "/empty.md" -> ""
          [] p = ContentDir \o "/drafts/note.md" -> "draft"
          [] p = Cwd \o "/app/data/blogs.json" -> "[{\"slug\":\"post\"}]"
          [] p = Cwd \o "/.env" -> "API_KEY=secret" ]

----------------------------------------------------------------------------
(* Page instance *)

Unset == [type |-> "unset"]

\* a request that has no answer yet
NoResult == [kind |-> "none"]

Init ==
    /\ blogs \in Registries \cup { FullRegistry }
    /\ files = FileSystem
    /\ slug \in Slugs
    /\ content = Null
    /\ loading = TRUE
    /\ deps = Unset
    /\ view = 1
    /\ fetches = <<>>
    /\ console = <<>>
    /\ currentPage = Num(0)
    /\ answer = NoResult

\* React runs the effect after a render whose [blog] differs from the last run
EffectPending == deps # blog

\* View with the loading test ahead of the test for a missing post
ViewSpinnerFirst ==
    IF loading THEN [page |-> "post", slug |-> slug, body |-> "spinner"]
    ELSE IF blog = Undefined THEN [page |-> "notFound"]
    ELSE IF Truthy(content)
         THEN [page |-> "post", slug |-> blog.slug, body |-> "article",
               html |-> parseMarkdown(content.val)]
    ELSE [page |-> "post", slug |-> blog.slug, body |-> "comingSoon"]

\* which branch of the render is taken
Body ==
    IF blog = Undefined THEN "notFound"
    ELSE IF loading THEN "spinner"
    ELSE IF Truthy(content) THEN "article"
    ELSE "comingSoon"

\* View that renders the article for any string body, the empty one too
ViewShowsEmpty ==
    IF blog = Undefined THEN [page |-> "notFound"]
    ELSE IF loading THEN [page |-> "post", slug |-> blog.slug, body |-> "spinner"]
    ELSE IF IsStr(content)
         THEN [page |-> "post", slug |-> blog.slug, body |-> "article",
               html |-> parseMarkdown(content.val)]
    ELSE [page |-> "post", slug |-> blog.slug, body |-> "comingSoon"]

\* what the page renders from slug, loading and content
View ==
    IF blog = Undefined THEN [page |-> "notFound"]
    ELSE IF loading THEN [page |-> "post", slug |-> blog.slug, body |-> "spinner"]
    ELSE IF Truthy(content)
         THEN [page |-> "post", slug |-> blog.slug, body |-> "article",
               html |-> parseMarkdown(content.val)]
    ELSE [page |-> "post", slug |-> blog.slug, body |-> "comingSoon"]

\* fetch(`/api/content/${blog.contentFile}`)
NewFetch(f) ==
    [ view |-> view, slug |-> slug, file |-> f,
      url |-> "/api/content/" \o f, state |-> "pending", result |-> NoResult ]

\* RunEffect that looks at the inline content before the contentFile
RunEffectInlineFirst ==
    /\ EffectPending
    /\ deps' = blog
    /\ IF Truthy(ContentOf(blog))
       THEN /\ content' = blog.content
            /\ loading' = FALSE
            /\ UNCHANGED fetches
       ELSE IF Truthy(ContentFileOf(blog))
       THEN /\ fetches' = Append(fetches, NewFetch(blog.contentFile.val))
            /\ UNCHANGED <<content, loading>>
       ELSE /\ content' = Null
            /\ loading' = FALSE
            /\ UNCHANGED fetches
    /\ UNCHANGED <<answer, currentPage, blogs, files, slug, view, console>>

\* the body of useEffect(() => {...}, [blog])
RunEffect ==
    /\ EffectPending
    /\ deps' = blog
    /\ IF Truthy(ContentFileOf(blog))
       THEN /\ fetches' = Append(fetches, NewFetch(blog.contentFile.val))
            /\ UNCHANGED <<content, loading>>
       ELSE /\ content' = OrElse(ContentOf(blog), Null)
            /\ loading' = FALSE
            /\ UNCHANGED fetches
    /\ UNCHANGED <<answer, currentPage, blogs, files, slug, view, console>>

\* Navigate that mounts the new instance with the loading flag of the old one
NavigateKeepsLoading(s) ==
    /\ ~EffectPending
    /\ view < MaxViews
    /\ slug' = s
    /\ view' = view + 1
    /\ content' = Null
    /\ deps' = Unset
    /\ UNCHANGED <<answer, currentPage, blogs, files, loading, fetches, console>>

\* Navigate that mounts the new instance with the content of the old one
NavigateKeepsContent(s) ==
    /\ ~EffectPending
    /\ view < MaxViews
    /\ slug' = s
    /\ view' = view + 1
    /\ loading' = TRUE
    /\ deps' = Unset
    /\ UNCHANGED <<answer, currentPage, blogs, files, content, fetches, console>>

\* the reader leaves the post and opens one from the list, another post or
\* the same one again: the router unmounts the page and mounts a new one,
\* whose state starts from useState(null) and useState(true) and whose effect
\* has not run; the requests of the old instance stay in flight
Navigate(s) ==
    /\ ~EffectPending
    /\ view < MaxViews
    /\ slug' = s
    /\ view' = view + 1
    /\ content' = Null
    /\ loading' = TRUE
    /\ deps' = Unset
    /\ UNCHANGED <<answer, currentPage, blogs, files, fetches, console>>

\* the instance that issued fetch i is the mounted one; a state setter called
\* for an unmounted instance changes nothing
Mounted(i) == fetches[i].view = view

----------------------------------------------------------------------------
(* Content-resolution endpoint and the network *)

\* the segments of an absolute path with "", "." and ".." resolved
RECURSIVE Resolve(_, _)
Resolve(segs, stack) ==
    IF segs = <<>> THEN stack
    ELSE IF Head(segs) \in { "", "." } THEN Resolve(Tail(segs), stack)
    ELSE IF Head(segs) = ".."
         THEN Resolve(Tail(segs), SubSeq(stack, 1, Len(stack) - 1))
    ELSE Resolve(Tail(segs), Append(stack, Head(segs)))

\* path.join(dir, name) for an absolute dir: joined with "/", then normalised;
\* a trailing separator is kept
PathJoin(dir, name) ==
    LET joined == IF name = "" THEN dir ELSE dir \o "/" \o name
        segs == Resolve(SplitBy(joined, "/"), <<>>)
        slash == IF segs # <<>> /\ MatchAt(joined, Len(joined), "/") THEN "/" ELSE ""
    IN "/" \o JoinBy(segs, "/") \o slash

\* the path of the first k of the segments
PathOf(segs, k) == "/" \o JoinBy(SubSeq(segs, 1, k), "/")

\* the directories of the file system: the root and every directory on the
\* way to a file; a trailing separator makes no difference
IsDirectory(p) ==
    LET segs == Resolve(SplitBy(p, "/"), <<>>)
    IN \/ segs = <<>>
       \/ \E q \in DOMAIN files : StartsWith(q, PathOf(segs, Len(segs)) \o "/")

\* fs.readFile(path.join(process.cwd(), "app", "data", "content", filename)):
\* the text of the file, or the error readFile rejects with: ENOTDIR when
\* the path goes through a regular file (or names one with a trailing
\* separator), EISDIR for a directory, ENOENT for a name that does not exist
ReadFile(filename) ==
    LET filePath == PathJoin(ContentDir, filename)
        segs == Resolve(SplitBy(filePath, "/"), <<>>)
        trailing == segs # <<>> /\ MatchAt(filePath, Len(filePath), "/")
        through == { k \in 1..Len(segs) :
                       /\ PathOf(segs, k) \in DOMAIN files
                       /\ (k < Len(segs) \/ trailing) }
    IN IF filePath \in DOMAIN files
       THEN [ok |-> TRUE, text |-> files[filePath]]
       ELSE [ok |-> FALSE,
             error |-> IF through # {} THEN "ENOTDIR"
                       ELSE IF IsDirectory(filePath) THEN "EISDIR"
                       ELSE "ENOENT"]

\* GETResponse without the try/catch: the read error reaches the framework
GETResponseThrows(filename) ==
    IF ReadFile(filename).ok
    THEN [kind |-> "response", status |-> 200,
          data |-> [content |-> Str(ReadFile(filename).text)]]
    ELSE [kind |-> "response", status |-> 500,
          data |-> [error |-> ReadFile(filename).error]]

\* GET /api/content/[filename]: the status and the JSON body of the answer
GETResponse(filename) ==
    IF ReadFile(filename).ok
    THEN [kind |-> "response", status |-> 200,
          data |-> [content |-> Str(ReadFile(filename).text)]]
    ELSE [kind |-> "response", status |-> 404,
          data |-> [error |-> "Content not found"]]

\* the characters of the model's alphabet by their code: U+0020..U+007D in
\* Printable (the tilde is taken: it stands for the backtick), and the five
\* control characters of WhiteSpace
Printable ==
    " !\"#$%&'()*+,-./0123456789:;<=>?@" \o UpperCase \o "[\\]^_" \o Backtick
        \o LowerCase \o "{|}"

AsciiChar(b) ==
    CASE b = 9 -> "\t"
      [] b = 10 -> "\n"
      [] b = 11 -> VerticalTab
      [] b = 12 -> "\f"
      [] b = 13 -> "\r"
      [] b \in 32..125 -> Char(Printable, b - 31)
      [] OTHER -> ""

HexDigits == "0123456789abcdef"

\* the value of a hexadecimal digit, -1 for any other character
HexValue(c) ==
    IF \E k \in 1..16 : Char(HexDigits, k) = LowerChar(c)
    THEN (CHOOSE k \in 1..16 : Char(HexDigits, k) = LowerChar(c)) - 1
    ELSE -1

\* the byte of an escape %XX at position i, -1 when there is none
EscapeAt(s, i) ==
    IF /\ i + 2 <= Len(s)
       /\ Char(s, i) = "%"
       /\ HexValue(Char(s, i + 1)) >= 0
       /\ HexValue(Char(s, i + 2)) >= 0
    THEN 16 * HexValue(Char(s, i + 1)) + HexValue(Char(s, i + 2))
    ELSE -1

\* UTF-8: the length of the sequence a byte starts (0: it starts none), and
\* the range of the j-th byte after the first
Utf8Length(b) ==
    IF b < 0 THEN 0
    ELSE IF b < 128 THEN 1
    ELSE IF b \in 194..223 THEN 2
    ELSE IF b \in 224..239 THEN 3
    ELSE IF b \in 240..244 THEN 4
    ELSE 0

Utf8Range(first, j) ==
    IF j > 1 THEN 128..191
    ELSE CASE first = 224 -> 160..191
           [] first = 237 -> 128..159
           [] first = 240 -> 144..191
           [] first = 244 -> 128..143
           [] OTHER -> 128..191

\* the one element of a set of one element: The({ F(x) : x \in { e } }) is
\* F(e) with e computed once
The(S) == CHOOSE x \in S : TRUE

URIError == [type |-> "throws", error |-> "URIError: URI malformed"]

\* the decoding of the escapes of s, or FALSE for a malformed escape. A
\* character outside the model's alphabet (a control character, the tilde,
\* a character beyond ASCII) stays written as its escapes.
RECURSIVE Decode(_)
Decode(s) ==
    IF s = "" THEN [ok |-> TRUE, val |-> ""]
    ELSE IF Char(s, 1) # "%"
    THEN The({ IF rest.ok THEN [ok |-> TRUE, val |-> Char(s, 1) \o rest.val] ELSE rest :
                 rest \in { Decode(Drop(s, 1)) } })
    ELSE LET b == EscapeAt(s, 1)
             n == Utf8Length(b)
             piece == IF n = 1 /\ AsciiChar(b) # "" THEN AsciiChar(b) ELSE Take(s, 3 * n)
         IN IF \/ n = 0
               \/ \E j \in 1..(n - 1) : EscapeAt(s, 3 * j + 1) \notin Utf8Range(b, j)
            THEN [ok |-> FALSE]
            ELSE The({ IF rest.ok THEN [ok |-> TRUE, val |-> piece \o rest.val] ELSE rest :
                         rest \in { Decode(Drop(s, 3 * n)) } })

\* decodeURIComponent(s): the decoded string, or the URIError it throws
DecodeURIComponent(s) ==
    The({ IF d.ok THEN Str(d.val) ELSE URIError : d \in { Decode(s) } })

\* s with every occurrence of a replaced by b
ReplaceAll(s, a, b) == JoinBy(SplitBy(s, a), b)

\* s without the characters of cs
RECURSIVE StripChars(_, _)
StripChars(s, cs) ==
    IF s = "" THEN ""
    ELSE (IF Char(s, 1) \in cs THEN "" ELSE Char(s, 1)) \o StripChars(Drop(s, 1), cs)

\* s without the characters of cs at its two ends
TrimChars(s, cs) ==
    LET ink == { k \in 1..Len(s) : Char(s, k) \notin cs }
    IN IF ink = {} THEN "" ELSE SubSeq(s, Min(ink), Max(ink))

\* s up to the first character of cs
BeforeAny(s, cs) ==
    LET cuts == { k \in 1..Len(s) : Char(s, k) \in cs }
    IN IF cuts = {} THEN s ELSE Take(s, Min(cuts) - 1)

\* the URL parser's clean-up of its input: tabs and newlines are removed,
\* then leading and trailing control characters and spaces
UrlInput(url) ==
    The({ TrimChars(kept, { " ", "\f", VerticalTab }) :
            kept \in { StripChars(url, { "\t", "\n", "\r" }) } })

\* the path of a URL: what stands before the query and the fragment, with
\* every backslash read as a slash
UrlPath(url) ==
    The({ ReplaceAll(path, "\\", "/") :
            path \in { BeforeAny(u, { "?", "#" }) : u \in { UrlInput(url) } } })

\* the characters the URL parser percent-encodes in a path segment
PathEncodeChar(c) ==
    CASE c = " " -> "%20"
      [] c = "\"" -> "%22"
      [] c = "<" -> "%3C"
      [] c = ">" -> "%3E"
      [] c = Backtick -> "%60"
      [] c = "{" -> "%7B"
      [] c = "}" -> "%7D"
      [] c = VerticalTab -> "%0B"
      [] c = "\f" -> "%0C"
      [] OTHER -> c

RECURSIVE PathEncode(_)
PathEncode(seg) ==
    IF seg = "" THEN "" ELSE PathEncodeChar(Char(seg, 1)) \o PathEncode(Drop(seg, 1))

SingleDot(seg) == Len(seg) <= 3 /\ ToLower(seg) \in { ".", "%2e" }
DoubleDot(seg) == Len(seg) <= 6 /\ ToLower(seg) \in { "..", ".%2e", "%2e.", "%2e%2e" }

\* the segments parsed so far with one more segment parsed, the last one
\* of the path or not
PushSegment(stack, seg, last) ==
    IF DoubleDot(seg)
    THEN IF last THEN Append(SubSeq(stack, 1, Len(stack) - 1), "")
         ELSE SubSeq(stack, 1, Len(stack) - 1)
    ELSE IF SingleDot(seg)
    THEN IF last THEN Append(stack, "") ELSE stack
    ELSE Append(stack, PathEncode(seg))

\* the path segments of a URL as the URL parser leaves them: a ".." segment,
\* also with percent-encoded dots, removes the segment before it, a "."
\* segment is dropped, and either leaves an empty segment when it is the
\* last one
RECURSIVE UrlSegments(_, _)
UrlSegments(segs, stack) ==
    IF segs = <<>> THEN stack
    ELSE The({ UrlSegments(rest, next) :
                 rest \in { Tail(segs) },
                 next \in { PushSegment(stack, seg, Len(segs) = 1) : seg \in { Head(segs) } } })

\* the path segments of the request for url (a path that starts with one
\* slash)
RouteSegments(url) ==
    The({ UrlSegments(segs, <<>>) :
            segs \in { SplitBy(Drop(path, 1), "/") : path \in { UrlPath(url) } } })

\* the route app/api/content/[filename]: params.filename of a request for
\* url, undefined when the request does not reach the handler: the path is
\* not one of this route (an empty segment or a trailing slash included), or
\* its parameter cannot be decoded
RouteParam(url) ==
    The({ IF Len(segs) = 3 /\ segs[1] = "api" /\ segs[2] = "content" /\ segs[3] # ""
          THEN The({ IF filename = URIError THEN Undefined ELSE filename :
                       filename \in { DecodeURIComponent(segs[3]) } })
          ELSE Undefined :
            segs \in { RouteSegments(url) } })

\* the framework's answer to a request that does not reach the handler: a
\* permanent redirect to the path without its empty segments (repeated or
\* trailing slashes), Bad Request for a parameter that cannot be decoded,
\* Not Found for any other path
NoRouteStatus(url) ==
    The({ IF \E k \in 1..Len(segs) : segs[k] = "" THEN 308
          ELSE IF Len(segs) = 3 /\ segs[1] = "api" /\ segs[2] = "content" THEN 400
          ELSE 404 :
            segs \in { RouteSegments(url) } })

\* the segments that are not empty
RECURSIVE NonEmpty(_)
NonEmpty(segs) ==
    IF segs = <<>> THEN <<>>
    ELSE (IF Head(segs) = "" THEN <<>> ELSE << Head(segs) >>) \o NonEmpty(Tail(segs))

\* the URL a fetch ends at: fetch follows the framework's redirect
FollowRedirect(url) ==
    IF NoRouteStatus(url) = 308
    THEN The({ "/" \o JoinBy(NonEmpty(segs), "/") : segs \in { RouteSegments(url) } })
    ELSE url

\* The handler is an async function: it runs up to "await params", then up
\* to "await fs.readFile", then to its return; the answer reaches the page
\* in a later task still. A request of the page is "pending" when sent,
\* "routed" when the handler holds params.filename, "answered" when the
\* handler has returned, "responded" when the page has the parsed answer.

\* const { filename } = await params
GETParams(i) ==
    /\ i \in 1..Len(fetches)
    /\ fetches[i].state = "pending"
    /\ \E filename \in { RouteParam(FollowRedirect(fetches[i].url)) } :
          /\ filename # Undefined
          /\ fetches' = [fetches EXCEPT
                           ![i].state = "routed",
                           ![i].result = [kind |-> "params", filename |-> filename.val]]
    /\ UNCHANGED <<answer, currentPage, blogs, files, slug, content, loading,
                   deps, view, console>>

\* the file is read (or the read fails) and the handler returns its answer
GETReadFile(i) ==
    /\ i \in 1..Len(fetches)
    /\ fetches[i].state = "routed"
    /\ fetches' = [fetches EXCEPT
                     ![i].state = "answered",
                     ![i].result = GETResponse(fetches[i].result.filename)]
    /\ UNCHANGED <<answer, currentPage, blogs, files, slug, content, loading,
                   deps, view, console>>

\* .then((res) => res.json()): the page has the answer's parsed body
ResJson(i) ==
    /\ i \in 1..Len(fetches)
    /\ fetches[i].state = "answered"
    /\ fetches' = [fetches EXCEPT ![i].state = "responded"]
    /\ UNCHANGED <<answer, currentPage, blogs, files, slug, content, loading,
                   deps, view, console>>

\* the path segments other HTTP clients ask the endpoint for
RequestSegments ==
    { "post.md", "missing.md", "drafts", "drafts%2Fnote.md", "../blogs.json",
      "..%2Fblogs.json", "..%2F..%2F..%2F.env", "..%2Fcontent%2Fpost.md",
      "%2Fetc%2Fpasswd", "%2E", "post.md/", "post.md%2F", "drafts%2F", "%" }

\* a request for /api/content/<seg> by a client other than the page: it
\* is sent when the client has the answer to its last one
Request(seg) ==
    /\ IF answer = NoResult THEN TRUE
       ELSE answer.result.kind \in { "response", "noRoute" }
    /\ answer' = [ url |-> "/api/content/" \o seg, result |-> [kind |-> "pending"] ]
    /\ UNCHANGED <<blogs, files, slug, content, loading, deps, view, fetches,
                   console, currentPage>>

\* the request is routed: the handler holds params.filename, or the
\* framework answers that no route matches
RequestParams ==
    /\ answer # NoResult
    /\ answer.result.kind = "pending"
    /\ answer' =
         [ answer EXCEPT !.result =
             IF RouteParam(answer.url) = Undefined
             THEN [kind |-> "noRoute", status |-> NoRouteStatus(answer.url)]
             ELSE [kind |-> "params", filename |-> RouteParam(answer.url).val] ]
    /\ UNCHANGED <<blogs, files, slug, content, loading, deps, view, fetches,
                   console, currentPage>>

\* the file is read (or the read fails) and the handler returns its answer
RequestReadFile ==
    /\ answer # NoResult
    /\ answer.result.kind = "params"
    /\ answer' = [ answer EXCEPT !.result = GETResponse(answer.result.filename) ]
    /\ UNCHANGED <<blogs, files, slug, content, loading, deps, view, fetches,
                   console, currentPage>>

\* what a rejected promise chain carries: fetch() rejects on a network
\* failure, res.json() rejects on a body that is not JSON
FetchErrors == { "TypeError: Failed to fetch", "SyntaxError: Unexpected token" }

FetchFails(i, e) ==
    /\ i \in 1..Len(fetches)
    /\ fetches[i].state \in { "pending", "routed", "answered" }
    /\ fetches' = [fetches EXCEPT ![i].state = "rejected",
                                  ![i].result = [kind |-> "error", error |-> e]]
    /\ UNCHANGED <<answer, currentPage, blogs, files, slug, content, loading, deps, view, console>>

\* DataContent reading the wrong field of the body
DataContentWrongField(data) ==
    IF "body" \in DOMAIN data THEN data.body ELSE Undefined

\* data.content of the parsed response body
DataContent(data) ==
    IF "content" \in DOMAIN data THEN data.content ELSE Undefined

\* ThenHandler that also stores the loaded body in the post's record
ThenHandlerCaches(i) ==
    /\ i \in 1..Len(fetches)
    /\ fetches[i].state = "responded"
    /\ content' = IF Mounted(i) THEN DataContent(fetches[i].result.data) ELSE content
    /\ loading' = IF Mounted(i) THEN FALSE ELSE loading
    /\ fetches' = [fetches EXCEPT ![i].state = "settled"]
    /\ blogs' = [k \in 1..Len(blogs) |->
                   IF blogs[k].slug = fetches[i].slug
                   THEN [blogs[k] EXCEPT !.content = content']
                   ELSE blogs[k]]
    /\ UNCHANGED <<answer, currentPage, files, slug, deps, view, console>>

\* ThenHandler whose setters reach the mounted instance whoever issued the fetch
ThenHandlerAnyInstance(i) ==
    /\ i \in 1..Len(fetches)
    /\ fetches[i].state = "responded"
    /\ content' = DataContent(fetches[i].result.data)
    /\ loading' = FALSE
    /\ fetches' = [fetches EXCEPT ![i].state = "settled"]
    /\ UNCHANGED <<answer, currentPage, blogs, files, slug, deps, view, console>>

\* .then((data) => { setContent(data.content); setLoading(false); })
ThenHandler(i) ==
    /\ i \in 1..Len(fetches)
    /\ fetches[i].state = "responded"
    /\ content' = IF Mounted(i) THEN DataContent(fetches[i].result.data) ELSE content
    /\ loading' = IF Mounted(i) THEN FALSE ELSE loading
    /\ fetches' = [fetches EXCEPT ![i].state = "settled"]
    /\ UNCHANGED <<answer, currentPage, blogs, files, slug, deps, view, console>>

\* CatchHandler that logs the error and leaves loading as it is
CatchHandlerKeepsLoading(i) ==
    /\ i \in 1..Len(fetches)
    /\ fetches[i].state = "rejected"
    /\ console' = Append(console,
            [msg |-> "Error loading content:",
             error |-> fetches[i].result.error, fetch |-> i])
    /\ fetches' = [fetches EXCEPT ![i].state = "settled"]
    /\ UNCHANGED <<answer, currentPage, blogs, files, slug, content, loading,
                   deps, view>>

\* CatchHandler that issues the request again after a failure
CatchHandlerRetry(i) ==
    /\ i \in 1..Len(fetches)
    /\ fetches[i].state = "rejected"
    /\ console' = Append(console,
            [msg |-> "Error loading content:",
             error |-> fetches[i].result.error, fetch |-> i])
    /\ loading' = IF Mounted(i) THEN FALSE ELSE loading
    /\ fetches' =
         IF Len(fetches) < MaxViews
         THEN Append([fetches EXCEPT ![i].state = "settled"],
                     [fetches[i] EXCEPT !.state = "pending", !.result = NoResult])
         ELSE [fetches EXCEPT ![i].state = "settled"]
    /\ UNCHANGED <<answer, currentPage, blogs, files, slug, content, deps, view>>

\* CatchHandler that puts the error message where the body is displayed
CatchHandlerShowsError(i) ==
    /\ i \in 1..Len(fetches)
    /\ fetches[i].state = "rejected"
    /\ console' = Append(console,
            [msg |-> "Error loading content:",
             error |-> fetches[i].result.error, fetch |-> i])
    /\ content' = IF Mounted(i) THEN Str(fetches[i].result.error) ELSE content
    /\ loading' = IF Mounted(i) THEN FALSE ELSE loading
    /\ fetches' = [fetches EXCEPT ![i].state = "settled"]
    /\ UNCHANGED <<answer, currentPage, blogs, files, slug, deps, view>>

\* .catch((error) => { console.error(...); setLoading(false); })
CatchHandler(i) ==
    /\ i \in 1..Len(fetches)
    /\ fetches[i].state = "rejected"
    /\ console' = Append(console,
            [msg |-> "Error loading content:",
             error |-> fetches[i].result.error, fetch |-> i])
    /\ loading' = IF Mounted(i) THEN FALSE ELSE loading
    /\ fetches' = [fetches EXCEPT ![i].state = "settled"]
    /\ UNCHANGED <<answer, currentPage, blogs, files, slug, content, deps, view>>

----------------------------------------------------------------------------
(* Homepage carousel of the posts (components/Blogs) *)

blogsPerPage == 4

\* Math.ceil(blogs.length / blogsPerPage)
totalPages == (Len(blogs) + blogsPerPage - 1) \div blogsPerPage

\* a * n for an integer n
JsMul(a, n) == IF a = NaN THEN NaN ELSE Num(a.val * n)

\* ToIntegerOrInfinity of a slice argument, then the clamp into 0..len
\* (NaN is 0, a negative index counts from the end)
SliceIndex(a, len) ==
    IF a = NaN THEN 0
    ELSE IF a.val < 0 THEN Max({ len + a.val, 0 })
    ELSE Min({ a.val, len })

\* Array.prototype.slice(start, end)
Slice(arr, start, end) ==
    LET from == SliceIndex(start, Len(arr))
        to   == SliceIndex(end, Len(arr))
    IN  IF from < to THEN SubSeq(arr, from + 1, to) ELSE <<>>

\* PageSlice whose end index is one past the next page's start
PageSliceOverlaps(page) ==
    Slice(blogs, JsMul(page, blogsPerPage),
                 JsAdd(JsMul(JsAdd(page, 1), blogsPerPage), 1))

\* blogs.slice(page * blogsPerPage, (page + 1) * blogsPerPage)
PageSlice(page) ==
    Slice(blogs, JsMul(page, blogsPerPage),
                 JsMul(JsAdd(page, 1), blogsPerPage))

currentBlogs == PageSlice(currentPage)

PageVars == <<slug, content, loading, deps, view, fetches, console, answer>>

\* nextPage that stops counting at nothing: no wrap to page 0
nextPageNoWrap ==
    /\ currentPage' = JsAdd(currentPage, 1)
    /\ UNCHANGED <<blogs, files, PageVars>>

\* setCurrentPage((prev) => (prev + 1) % totalPages)
nextPage ==
    /\ currentPage' = JsRem(JsAdd(currentPage, 1), totalPages)
    /\ UNCHANGED <<blogs, files, PageVars>>

\* setCurrentPage((prev) => (prev - 1 + totalPages) % totalPages)
prevPage ==
    /\ currentPage' = JsRem(JsAdd(JsAdd(currentPage, -1), totalPages), totalPages)
    /\ UNCHANGED <<blogs, files, PageVars>>

\* a pagination dot: onClick={() => setCurrentPage(index)}
setCurrentPage(index) ==
    /\ index \in 0..(totalPages - 1)
    /\ currentPage' = Num(index)
    /\ UNCHANGED <<blogs, files, PageVars>>

----------------------------------------------------------------------------

Next ==
    \/ RunEffect
    \/ nextPage
    \/ prevPage
    \/ \E index \in 0..(totalPages - 1) : setCurrentPage(index)
    \/ \E s \in Slugs : Navigate(s)
    \/ \E i \in 1..MaxViews : GETParams(i)
    \/ \E i \in 1..MaxViews : GETReadFile(i)
    \/ \E i \in 1..MaxViews : ResJson(i)
    \/ \E i \in 1..MaxViews, e \in FetchErrors : FetchFails(i, e)
    \/ \E i \in 1..MaxViews : ThenHandler(i)
    \/ \E i \in 1..MaxViews : CatchHandler(i)

Spec == Init /\ [][Next]_vars

----------------------------------------------------------------------------
(* The site at work: the full registry, served with or without the body file
   bold.md, where React runs every pending effect and handler and every
   request is answered or fails *)

BoldFile == ContentDir \o "/bold.md"

InitSite ==
    /\ blogs = FullRegistry
    /\ files \in { FileSystem,
                   [p \in DOMAIN FileSystem \ { BoldFile } |-> FileSystem[p]] }
    /\ slug \in Slugs
    /\ content = Null
    /\ loading = TRUE
    /\ deps = Unset
    /\ view = 1
    /\ fetches = <<>>
    /\ console = <<>>
    /\ currentPage = Num(0)
    /\ answer = NoResult

\* An effect or a handler that can run is run, and no request stays without
\* an outcome for ever. The failure step of a request is enabled exactly
\* while the page has neither the answer nor a failure, so its weak fairness
\* holds of a behaviour exactly when each request reaches the page (ResJson)
\* or fails (FetchFails) at some point.
Fairness ==
    /\ WF_vars(RunEffect)
    /\ \A i \in 1..MaxViews :
          /\ WF_vars(\E e \in FetchErrors : FetchFails(i, e))
          /\ WF_vars(ThenHandler(i))
          /\ WF_vars(CatchHandler(i))

SpecSite == InitSite /\ [][Next]_vars /\ Fairness

----------------------------------------------------------------------------
(* The carousel at work: the registry is any run of consecutive records of
   a list of MaxPosts posts, and only the carousel's buttons are pressed *)

PostList ==
    [i \in 1..MaxPosts |-> Blog("post-" \o ToString(i), Undefined, Undefined)]

PostRuns ==
    { SubSeq(PostList, i, j) : i \in 1..(MaxPosts + 1), j \in 0..MaxPosts }

InitCarousel ==
    /\ blogs \in PostRuns
    /\ files = FileSystem
    /\ slug = "post-1"
    /\ content = Null
    /\ loading = TRUE
    /\ deps = Unset
    /\ view = 1
    /\ fetches = <<>>
    /\ console = <<>>
    /\ currentPage = Num(0)
    /\ answer = NoResult

NextCarousel ==
    \/ nextPage
    \/ prevPage
    \/ \E index \in 0..(totalPages - 1) : setCurrentPage(index)

SpecCarousel == InitCarousel /\ [][NextCarousel]_vars

----------------------------------------------------------------------------
(* The renderer at work: one post whose body file holds any of the bodies
   below; the page fetches it and displays parseMarkdown of it *)

\* fenced code blocks: a language tag, a code text, text around the block
CodeTags == { "", "ts", "c++" }
CodeTexts ==
    { "<script>alert(1)</script>", "if (a < b && c > d) s = \"x\" + 'y';",
      "name: ci\n# release" }

FencedInputs ==
    { pre \o Fence \o tag \o "\n" \o code \o "\n" \o Fence \o post :
        pre \in { "", "Intro\n\n" }, tag \in CodeTags, code \in CodeTexts,
        post \in { "", "\n\nEnd" } }

\* header lines
HeaderTexts ==
    { "Setup", "Two words", "**Big** idea", "Run " \o Backtick \o "npm" \o Backtick,
      "say \"hi\" & <go>", "<li>x</li>" }

HeaderInputs ==
    { pre \o marker \o text \o post :
        pre \in { "", "Intro\n" }, marker \in { "# ", "## ", "### " },
        text \in HeaderTexts, post \in { "", "\nBody" } }

\* runs of list lines
ItemTexts == { "a", "b" }
ItemRuns == UNION { [1..n -> ItemTexts] : n \in 1..MaxItems }
RunText(items) == JoinBy([i \in 1..Len(items) |-> "- " \o items[i]], "\n")

ListInputs ==
    { RunText(r) : r \in ItemRuns }
    \cup { "Before\n" \o RunText(r) \o "\nAfter" : r \in ItemRuns }
    \cup { RunText(r) \o sep \o "- **c**" :
             r \in ItemRuns, sep \in { "\n\n", "\nText\n" } }

\* text between double asterisks
BoldTexts == { "bold", "two words", "a*b", "one\n# two", "<li>x</li>" }

BoldInputs ==
    { pre \o "**" \o text \o "**" \o post :
        pre \in { "", "say ", "- " }, text \in BoldTexts, post \in { "", " now" } }

\* blocks separated by blank lines
Blocks == { "text", "<b>raw</b>", "<3 hearts", "", " ", "- item" }

ParagraphInputs ==
    { JoinBy(bs, "\n\n") : bs \in UNION { [1..n -> Blocks] : n \in 1..MaxBlocks } }

\* bodies with markers that nothing closes
OpenInputs ==
    { "", Fence, Fence \o "ts\nopen", Backtick \o "open", "**open", "**",
      "- ", "# ", "\n", "<" }

\* bodies with a vertical tab as white space
TabInputs ==
    { VerticalTab, VerticalTab \o "<b>", "x\n\n" \o VerticalTab,
      "- a\n" \o VerticalTab \o "\n- b",
      Fence \o "ts\n" \o VerticalTab \o "x" \o VerticalTab \o "\n" \o Fence }

MdInputs ==
    FencedInputs \cup HeaderInputs \cup ListInputs \cup BoldInputs
        \cup ParagraphInputs \cup OpenInputs \cup TabInputs

PostFile == ContentDir \o "/post.md"

InitRender ==
    /\ \/ /\ blogs = << Blog("post", Undefined, Str("post.md")) >>
          /\ files \in { [FileSystem EXCEPT ![PostFile] = md] : md \in MdInputs }
       \/ /\ blogs = << Blog("post", Str(""), Undefined) >>
          /\ files = FileSystem
    /\ slug = "post"
    /\ content = Null
    /\ loading = TRUE
    /\ deps = Unset
    /\ view = 1
    /\ fetches = <<>>
    /\ console = <<>>
    /\ currentPage = Num(0)
    /\ answer = NoResult

NextRender ==
    \/ RunEffect
    \/ \E i \in 1..MaxViews : GETParams(i)
    \/ \E i \in 1..MaxViews : GETReadFile(i)
    \/ \E i \in 1..MaxViews : ResJson(i)
    \/ \E i \in 1..MaxViews, e \in FetchErrors : FetchFails(i, e)
    \/ \E i \in 1..MaxViews : ThenHandler(i)
    \/ \E i \in 1..MaxViews : CatchHandler(i)

SpecRender == InitRender /\ [][NextRender]_vars

----------------------------------------------------------------------------
(* The endpoint under requests for arbitrary names: one post whose
   contentFile is any of the names, and other clients asking for any *)

InitEndpoint ==
    /\ blogs \in { << Blog("post", Undefined, Str(f)) >> : f \in RequestSegments }
    /\ files = FileSystem
    /\ slug = "post"
    /\ content = Null
    /\ loading = TRUE
    /\ deps = Unset
    /\ view = 1
    /\ fetches = <<>>
    /\ console = <<>>
    /\ currentPage = Num(0)
    /\ answer = NoResult

NextEndpoint ==
    \/ \E seg \in RequestSegments : Request(seg)
    \/ RequestParams
    \/ RequestReadFile
    \/ RunEffect
    \/ \E i \in 1..MaxViews : GETParams(i)
    \/ \E i \in 1..MaxViews : GETReadFile(i)
    \/ \E i \in 1..MaxViews : ResJson(i)
    \/ \E i \in 1..MaxViews, e \in FetchErrors : FetchFails(i, e)
    \/ \E i \in 1..MaxViews : ThenHandler(i)
    \/ \E i \in 1..MaxViews : CatchHandler(i)

SpecEndpoint == InitEndpoint /\ [][NextEndpoint]_vars

----------------------------------------------------------------------------
(* Vocabulary of the properties *)

FetchIds == 1..Len(fetches)

\* the step settles fetch i: its then- or catch-handler runs
Settles(i) == fetches[i].state # "settled" /\ fetches'[i].state = "settled"

\* the step runs the effect of the mounted instance
EffectRuns == view' = view /\ deps' # deps

\* the fetch failed: the chain rejected, or the endpoint answered not-found
Failed(f) ==
    \/ f.result.kind = "error"
    \/ f.result.kind = "response" /\ f.result.status = 404

NoBody(b) == b # Undefined /\ b.content = Undefined /\ b.contentFile = Undefined
Inline(b) == b # Undefined /\ IsStr(b.content) /\ b.contentFile = Undefined

\* the HTML the page displays as the post's body, undefined when it shows none
Html ==
    IF View.page = "post" /\ View.body = "article" THEN Str(View.html)
    ELSE Undefined

StrongBold == "<strong class=\"font-bold\">bold</strong>"
DivOpen == "<div class=\"mb-4 leading-relaxed\">"

----------------------------------------------------------------------------
(* C1..C10: content loader and registry lookup *)

\* C1: a fetch that settles after the reader has gone on to another post (it
\* was issued by an earlier view, or its slug is no longer the viewed slug) is
\* discarded: it leaves the content state, the loading flag and the branch
\* the page renders alone, so the content never holds its body under the other post.
C1_StaleResultDiscarded ==
    [][\A i \in FetchIds :
          (Settles(i) /\ (fetches[i].slug # slug \/ fetches[i].view # view)) =>
              /\ content' = content
              /\ loading' = loading
              /\ Body' = Body]_vars

\* post.md was fetched for the first view and answered after the reader had
\* gone on to post a, which displays its own inline body
C1_Witness ==
    /\ view > 1
    /\ slug = "a"
    /\ content = Str("**bold**")
    /\ Html = Str(StrongBold)
    /\ \E i \in FetchIds :
          /\ fetches[i].view # view
          /\ fetches[i].slug = "post"
          /\ fetches[i].state = "settled"
          /\ fetches[i].result.kind = "response"
          /\ fetches[i].result.data = [content |-> Str("# Title")]

\* once the effect has run for a post with a contentFile, a fetch keyed by
\* that file name has been issued for the view
C2_Issued ==
    (~EffectPending /\ Truthy(ContentFileOf(blog))) =>
        \E i \in FetchIds :
            /\ fetches[i].view = view
            /\ fetches[i].file = blog.contentFile.val
            /\ fetches[i].url = "/api/content/" \o blog.contentFile.val

\* C2 as stated: every step that settles a fetch answered with { content: c }
\* ends with content = c and loading = false.
C2_Original ==
    [][/\ C2_Issued'
       /\ \A i \in FetchIds :
            (/\ Settles(i)
             /\ fetches[i].result.kind = "response"
             /\ "content" \in DOMAIN fetches[i].result.data)
            => /\ content' = fetches[i].result.data.content
               /\ loading' = FALSE]_vars

\* C2 (amended): once the effect has run for a post with a contentFile, a
\* fetch keyed by that file name has been issued for the view; and the step
\* that settles a fetch answered with { content: c } while the view that
\* issued it is still the displayed one ends with content = c, loading = false.
C2_FetchResolves ==
    [][/\ C2_Issued'
       /\ \A i \in FetchIds :
            (/\ Settles(i)
             /\ fetches[i].view = view
             /\ fetches[i].result.kind = "response"
             /\ "content" \in DOMAIN fetches[i].result.data)
            => /\ content' = fetches[i].result.data.content
               /\ loading' = FALSE]_vars

C2_Witness ==
    /\ blog # Undefined
    /\ blog.contentFile = Str("post.md")
    /\ content = Str("# Title")
    /\ ~loading
    /\ \E i \in FetchIds :
          /\ fetches[i].view = view
          /\ fetches[i].url = "/api/content/post.md"
          /\ fetches[i].state = "settled"
          /\ fetches[i].result.kind = "response"
          /\ fetches[i].result.status = 200

\* C3: for a post with neither content nor contentFile the effect ends in the
\* absent state (content = null, loading = false, placeholder shown) and no
\* fetch is ever issued for that post view.
C3_State ==
    /\ NoBody(blog) => \A i \in FetchIds : fetches[i].view # view
    /\ (view = 1 /\ ~EffectPending /\ NoBody(blog)) =>
          /\ content = Null
          /\ ~loading
          /\ View.body = "comingSoon"
          /\ fetches = <<>>

C3_NoBodyAbsent ==
    [][/\ C3_State'
       /\ (EffectRuns /\ NoBody(blog)) =>
             /\ content' = Null
             /\ loading' = FALSE
             /\ Body' = "comingSoon"
             /\ fetches' = fetches]_vars

C3_Witness ==
    /\ NoBody(blog)
    /\ ~EffectPending
    /\ view > 1
    /\ content = Null
    /\ ~loading
    /\ View.body = "comingSoon"
    /\ fetches # <<>>

\* C4 as stated: for a post with inline content and no contentFile the effect
\* resolves to exactly that content without a fetch, the page displays the
\* article (parseMarkdown of the content), and for "**bold**" that HTML is a
\* paragraph wrapper containing the strong element.
C4_Original ==
    [][(EffectRuns /\ Inline(blog)) =>
          /\ content' = blog.content
          /\ fetches' = fetches
          /\ Body' = "article"
          /\ blog.content.val = "**bold**" =>
                /\ StartsWith(parseMarkdown(blog.content.val), DivOpen)
                /\ Contains(parseMarkdown(blog.content.val), StrongBold)]_vars

\* C4 (amended): for a post with non-empty inline content and no contentFile
\* the effect resolves to exactly that content without a fetch and the page
\* displays the article, parseMarkdown of that content; for "**bold**" that
\* HTML is the strong element alone, without a paragraph wrapper.
C4_InlineContent ==
    [][(EffectRuns /\ Inline(blog) /\ Truthy(blog.content)) =>
          /\ content' = blog.content
          /\ loading' = FALSE
          /\ fetches' = fetches
          /\ Body' = "article"
          /\ blog.content.val = "**bold**" =>
                parseMarkdown(blog.content.val) = StrongBold]_vars

C4_Witness ==
    /\ Inline(blog)
    /\ blog.content = Str("**bold**")
    /\ ~EffectPending
    /\ content = Str("**bold**")
    /\ fetches = <<>>
    /\ Html = Str(StrongBold)

\* C5: when the fetch of the displayed post fails (rejected chain or not-found
\* answer), the step that settles it ends in the absent state: loading =
\* false, no body, the placeholder shown.
C5_FailureIsAbsent ==
    [][\A i \in FetchIds :
          (Settles(i) /\ fetches[i].view = view /\ Failed(fetches[i])) =>
              /\ loading' = FALSE
              /\ ~Truthy(content')
              /\ Body' = "comingSoon"]_vars

\* the second post viewed names a file the content directory does not hold:
\* the endpoint answered not-found and the page shows the placeholder
C5_Witness ==
    /\ view > 1
    /\ ~loading
    /\ ~Truthy(content)
    /\ Body = "comingSoon"
    /\ \E i \in FetchIds :
          /\ fetches[i].view = view
          /\ fetches[i].state = "settled"
          /\ fetches[i].result.kind = "response"
          /\ fetches[i].result.status = 404

\* C6: every settled fetch that failed, by rejection or by a not-found answer,
\* has an entry in the console log.
C6_FailuresLogged ==
    \A i \in FetchIds :
        (fetches[i].state = "settled" /\ Failed(fetches[i])) =>
            \E k \in 1..Len(console) : console[k].fetch = i

\* C7: every post view starts in loading, and once it has left loading
\* neither loading nor the resolved content changes while the view lasts.
C7_OneTransition ==
    [][/\ view' # view => loading'
       /\ (view' = view /\ ~loading) =>
             (loading' = loading /\ content' = content)]_vars

\* the second view has made its one transition, to the body of its own
\* fetch, and the failed fetch of the first view has settled as well
C7_Witness ==
    /\ view > 1
    /\ ~loading
    /\ Truthy(content)
    /\ \E i, j \in FetchIds :
          /\ fetches[i].view = view
          /\ fetches[i].state = "settled"
          /\ fetches[i].result.kind = "response"
          /\ fetches[j].view # view
          /\ fetches[j].state = "settled"
          /\ fetches[j].result.kind = "error"

\* C8: a post view issues at most one fetch in all, so at most one is in
\* flight and a failed one is never issued again.
C8_OneFetchPerView ==
    \A v \in 1..view :
        Cardinality({ i \in FetchIds : fetches[i].view = v }) <= 1

C8_Witness ==
    /\ ~EffectPending
    /\ \E i \in FetchIds :
          /\ fetches[i].view = view
          /\ fetches[i].state = "settled"
          /\ fetches[i].result.kind = "error"

\* C9: a slug that matches no record gives the not-found value, the page is
\* the not-found view in every loader state, and the view issues no fetch.
C9_NotFound ==
    /\ \A s \in Slugs :
          (\A i \in 1..Len(blogs) : blogs[i].slug # s) =>
              getBlogBySlug(s) = Undefined
    /\ blog = Undefined =>
          /\ View = [page |-> "notFound"]
          /\ \A i \in FetchIds : fetches[i].view # view

C9_Witness ==
    /\ blog = Undefined
    /\ ~EffectPending
    /\ view > 1
    /\ View.page = "notFound"
    /\ \E i \in FetchIds : fetches[i].state = "pending"

\* C10: getBlogBySlug(s) is a record of the registry whose slug is exactly s
\* when there is one, and the not-found value for every other string.
C10_ExactLookup ==
    \A s \in Slugs :
        IF \E i \in 1..Len(blogs) : blogs[i].slug = s
        THEN /\ getBlogBySlug(s) \in { blogs[i] : i \in 1..Len(blogs) }
             /\ getBlogBySlug(s).slug = s
        ELSE getBlogBySlug(s) = Undefined

C10_Witness ==
    /\ slug = "A"
    /\ getBlogBySlug("a") # Undefined
    /\ getBlogBySlug("A") = Undefined
    /\ getBlogBySlug("post") # Undefined
    /\ getBlogBySlug("POST") = Undefined
    /\ View.page = "notFound"

----------------------------------------------------------------------------
(* C11..C12: the registry *)

\* C11: getAllBlogSlugs has one entry per registry record, and its i-th entry
\* is the slug of the i-th record in source order.
C11_SlugsInOrder ==
    /\ Len(getAllBlogSlugs) = Len(blogs)
    /\ \A i \in 1..Len(blogs) : getAllBlogSlugs[i] = blogs[i].slug

C11_Witness ==
    /\ Len(blogs) = 2
    /\ getAllBlogSlugs = << "post", "a" >>
    /\ ~EffectPending

\* C12: no step of the page, of the content loading, of the lookups or of the
\* carousel changes the registry: the same records, in the same order, with
\* the same field values.
C12_RegistryReadOnly == [][blogs' = blogs]_vars

C12_Witness ==
    /\ blogs = FullRegistry
    /\ getAllBlogSlugs = << "post", "a", "A", "soon", "both", "gone" >>
    /\ currentPage = Num(1)
    /\ view > 1
    /\ getBlogBySlug(slug) = FullRegistry[1]
    /\ Truthy(content)
    /\ \E i \in FetchIds : fetches[i].state = "settled"

----------------------------------------------------------------------------
(* C13..C18: the renderer *)

\* the page displays the article: the HTML of the loaded body
Displayed == Body = "article"
Shown == parseMarkdown(content.val)

Lines(md) == SplitBy(md, "\n")

\* the first fenced block of a body: an opening fence with its tag up to the
\* end of the line, the text up to the next fence
FencedBlock(md) ==
    LET open == IndexFrom(md, Fence, 1)
        nl == IF open = 0 THEN 0 ELSE IndexFrom(md, "\n", open + 3)
        close == IF nl = 0 THEN 0 ELSE IndexFrom(md, Fence, nl + 1)
    IN IF close # 0 /\ ~Contains(SubSeq(md, open + 3, nl - 1), Backtick)
       THEN [found |-> TRUE, tag |-> SubSeq(md, open + 3, nl - 1),
             code |-> SubSeq(md, nl + 1, close - 1)]
       ELSE [found |-> FALSE]

\* C13: when the displayed body has a fenced code block, the HTML holds the
\* block's text in escaped form, closing the pre/code element, and does not
\* hold it raw when it has a character to escape (a <script> tag stays text).
C13_FencedEscaped ==
    Displayed =>
        LET block == FencedBlock(content.val)
        IN block.found =>
              /\ Contains(Shown, escapeHtml(Trim(block.code)) \o "</code></pre>")
              /\ escapeHtml(Trim(block.code)) # Trim(block.code) =>
                     ~Contains(Shown, Trim(block.code))

\* an element <tag id="text" ...>text</tag> is in the HTML
HasHeader(html, tag, text) ==
    /\ Contains(html, "<" \o tag \o " id=\"" \o text \o "\" class=")
    /\ Contains(html, "\">" \o text \o "</" \o tag \o ">")

\* C14 as stated: every line "## T" (resp. "### T") of the displayed body
\* gives an h2 (resp. h3) element whose text and whose id are the raw T.
C14_Original ==
    Displayed =>
        \A k \in 1..Len(Lines(content.val)) :
            LET line == Lines(content.val)[k]
            IN /\ StartsWith(line, "## ") => HasHeader(Shown, "h2", Drop(line, 3))
               /\ StartsWith(line, "### ") => HasHeader(Shown, "h3", Drop(line, 4))

\* the header text no later pass rewrites: no double asterisk, no "<li"
PlainHeader(text) == ~Contains(text, "**") /\ ~Contains(text, "<li")

\* C14 (amended): in a body without backticks, every line "## T" (resp.
\* "### T") whose T has no double asterisk and no "<li" gives an h2 (resp.
\* h3) element whose text and whose id are the raw T.
C14_HeaderIds ==
    (Displayed /\ ~Contains(content.val, Backtick)) =>
        \A k \in 1..Len(Lines(content.val)) :
            LET line == Lines(content.val)[k]
            IN /\ (StartsWith(line, "## ") /\ PlainHeader(Drop(line, 3))) =>
                     HasHeader(Shown, "h2", Drop(line, 3))
               /\ (StartsWith(line, "### ") /\ PlainHeader(Drop(line, 4))) =>
                     HasHeader(Shown, "h3", Drop(line, 4))

C14_Witness ==
    /\ Displayed
    /\ content.val = "Intro\n## say \"hi\" & <go>\nBody"
    /\ Contains(Shown, "<h2 id=\"say \"hi\" & <go>\" class=")
    /\ Contains(Shown, ">say \"hi\" & <go></h2>")

UlOpen == "<ul class=\"list-disc list-inside space-y-2 my-4\">"
LiOpen == "<li class=\"ml-4\">"

\* the texts between each opening tag and the next closing tag, in order
RECURSIVE Between(_, _, _)
Between(html, open, close) ==
    LET i == IndexFrom(html, open, 1)
        j == IF i = 0 THEN 0 ELSE IndexFrom(html, close, i + Len(open))
    IN IF j = 0 THEN <<>>
       ELSE << SubSeq(html, i + Len(open), j - 1) >>
                \o Between(Drop(html, j + Len(close) - 1), open, close)

\* the ul elements of the HTML, each as the texts of its li elements
UlElements(html) ==
    LET uls == Between(html, UlOpen, "</ul>")
    IN [k \in 1..Len(uls) |-> Between(uls[k], LiOpen, "</li>")]

\* the runs of lines starting with "- ", each as the texts of its lines; with
\* blanksJoin, runs with nothing but blank lines between them are one
RECURSIVE ItemGroups(_, _, _, _)
ItemGroups(lines, cur, acc, blanksJoin) ==
    IF lines = <<>> THEN (IF cur = <<>> THEN acc ELSE Append(acc, cur))
    ELSE IF StartsWith(Head(lines), "- ")
         THEN ItemGroups(Tail(lines), Append(cur, Drop(Head(lines), 2)), acc, blanksJoin)
    ELSE IF blanksJoin /\ Trim(Head(lines)) = ""
         THEN ItemGroups(Tail(lines), cur, acc, blanksJoin)
    ELSE ItemGroups(Tail(lines), <<>>,
                    IF cur = <<>> THEN acc ELSE Append(acc, cur), blanksJoin)

\* a body whose list items all come from lines starting with "- ": it has no
\* fenced code block and the earlier passes leave no "<li" in it
ListsFromLines(md) == ~Contains(md, Fence) /\ ~Contains(BeforeLists(md), "<li")

\* C15 as stated: every run of n consecutive lines starting with "- " gives
\* one ul element of its own with n li elements, in order, each holding its
\* line's text (as the earlier passes left it).
C15_Original ==
    (Displayed /\ ListsFromLines(content.val)) =>
        UlElements(Shown) =
            ItemGroups(Lines(BeforeLists(content.val)), <<>>, <<>>, FALSE)

\* C15 (amended): in a body without fenced code blocks and without "<li"
\* markup of its own, every run of n consecutive lines starting with "- "
\* gives n li elements, in order, each holding its line's text as the earlier
\* passes left it, inside one ul element; runs with only blank lines between
\* them share that ul element, and there is no other ul element.
C15_ListRuns ==
    (Displayed /\ ListsFromLines(content.val)) =>
        UlElements(Shown) =
            ItemGroups(Lines(BeforeLists(content.val)), <<>>, <<>>, TRUE)

C15_Witness ==
    /\ Displayed
    /\ content.val = "Before\n- a\n- b\n- a\nAfter"
    /\ UlElements(Shown) = << << "a", "b", "a" >> >>
    /\ Between(Shown, UlOpen, "</ul>") =
          << LiOpen \o "a</li>\n" \o LiOpen \o "b</li>\n" \o LiOpen \o "a</li>\n" >>

\* the text between the first and the last pair of asterisks of a body that
\* has no other asterisk outside them
Delimited(md) ==
    LET stars == { k \in 1..Len(md) : Char(md, k) = "*" }
        i == IF stars = {} THEN 0 ELSE Min(stars)
        j == IF stars = {} THEN 0 ELSE Max(stars)
    IN IF stars # {} /\ MatchAt(md, i, "**") /\ MatchAt(md, j - 1, "**") /\ j - 1 >= i + 2
       THEN [found |-> TRUE, text |-> SubSeq(md, i + 2, j - 2)]
       ELSE [found |-> FALSE]

\* C16 as stated: the text between double asterisks is held by a strong
\* element, exactly and without the asterisks.
C16_Original ==
    Displayed =>
        LET d == Delimited(content.val)
        IN d.found => Contains(Shown, "<strong class=\"font-bold\">" \o d.text \o "</strong>")

\* C16 (amended): in a body without backticks, text between double asterisks
\* that is not empty and has no asterisk, no line break and no "<" is held
\* by a strong element, exactly, and the asterisks are gone.
C16_Strong ==
    (Displayed /\ ~Contains(content.val, Backtick)) =>
        LET d == Delimited(content.val)
        IN (/\ d.found
            /\ d.text # ""
            /\ \A c \in { "*", "\n", "\r", "<" } : ~Contains(d.text, c))
           => /\ Contains(Shown, "<strong class=\"font-bold\">" \o d.text \o "</strong>")
              /\ ~Contains(Shown, "*")

C16_Witness ==
    /\ Displayed
    /\ content.val = "say **two words** now"
    /\ Shown = DivOpen \o "say <strong class=\"font-bold\">two words</strong> now</div>"

\* an HTML tag starts the text: "<" and a letter, or a closing tag or comment
Letters == { Char(UpperCase, k) : k \in 1..26 } \cup { Char(LowerCase, k) : k \in 1..26 }
StartsWithTag(text) ==
    /\ Len(text) >= 2
    /\ Char(text, 1) = "<"
    /\ Char(text, 2) \in Letters \cup { "/", "!" }

\* the block as the paragraph pass should leave it
Wrapped(block, unwrapped) ==
    IF Trim(block) = "" THEN ""
    ELSE IF unwrapped THEN block
    ELSE DivOpen \o block \o "</div>"

\* the blocks of the displayed body after the earlier passes
BlocksShown == SplitBy(BeforeParagraphs(content.val), "\n\n")

\* C17 as stated: the text left by the earlier passes is split at blank
\* lines; a block that starts with an HTML tag stays as it is, any other
\* block that is not empty gets one div wrapper, an empty block gets none.
C17_Original ==
    Displayed =>
        Shown = JoinBy([k \in 1..Len(BlocksShown) |->
                          Wrapped(BlocksShown[k], StartsWithTag(Trim(BlocksShown[k])))],
                       "\n")

\* C17 (amended): the text left by the earlier passes is split at every
\* double newline; a block whose trimmed text starts with the character "<",
\* a tag or not, stays as it is; any other block that is not empty after
\* trimming gets one div wrapper; a block that is empty after trimming
\* gives the empty string.
C17_Paragraphs ==
    Displayed =>
        Shown = JoinBy([k \in 1..Len(BlocksShown) |->
                          Wrapped(BlocksShown[k], StartsWith(Trim(BlocksShown[k]), "<"))],
                       "\n")

C17_Witness ==
    /\ Displayed
    /\ content.val = "text\n\n \n\n<3 hearts"
    /\ BlocksShown = << "text", " ", "<3 hearts" >>
    /\ Shown = DivOpen \o "text</div>\n\n<3 hearts"

\* C18: parseMarkdown gives a string for every body the server holds, closed
\* or not, and the empty string for the empty body.
C18_Total ==
    /\ \A p \in DOMAIN files : parseMarkdown(files[p]) \in STRING
    /\ \A p \in DOMAIN files : files[p] = "" => parseMarkdown(files[p]) = ""
    /\ Displayed => Shown \in STRING

C18_Witness ==
    /\ Displayed
    /\ content.val = Fence \o "ts\nopen"
    /\ Shown = DivOpen \o Fence \o "ts\nopen</div>"
    /\ files[ContentDir \o "/empty.md"] = ""
    /\ parseMarkdown(files[ContentDir \o "/empty.md"]) = ""

----------------------------------------------------------------------------
(* C19..C20: the content-resolution endpoint *)

\* the answers the endpoint has given: to the page's fetches and to the last
\* request of another client, each with the filename parameter it was given
EndpointAnswers ==
    { [filename |-> RouteParam(FollowRedirect(fetches[i].url)).val,
       result |-> fetches[i].result] :
        i \in { k \in FetchIds : fetches[k].result.kind = "response" } }
    \cup (IF answer # NoResult /\ answer.result.kind = "response"
          THEN { [filename |-> RouteParam(answer.url).val, result |-> answer.result] }
          ELSE {})

\* the name is a path: it has a separator or a ".." segment
IsPathName(name) == Contains(name, "/") \/ name = ".."

InsideContentDir(p) == StartsWith(p, ContentDir \o "/")

\* C19: no answer of the endpoint carries the text of a file outside
\* app/data/content, whatever name was requested, a path included.
C19_OnlyContentDir ==
    \A a \in EndpointAnswers : \A p \in DOMAIN files :
        ~InsideContentDir(p) =>
            ~(a.result.status = 200 /\ a.result.data = [content |-> Str(files[p])])

\* C20: the endpoint answers 200 { content: <the file's text> } when the file
\* named by the parameter is read, and otherwise a 404 whose body has no
\* content field; every routed request gets one of the two, never an error.
C20_ContentOrNotFound ==
    \A a \in EndpointAnswers :
        LET filePath == PathJoin(ContentDir, a.filename)
        IN IF filePath \in DOMAIN files
           THEN a.result = [kind |-> "response", status |-> 200,
                            data |-> [content |-> Str(files[filePath])]]
           ELSE /\ a.result.status = 404
                /\ "content" \notin DOMAIN a.result.data

C20_Witness ==
    /\ answer # NoResult
    /\ answer.url = "/api/content/drafts"
    /\ answer.result.kind = "response"
    /\ answer.result.status = 404
    /\ answer.result.data = [error |-> "Content not found"]
    /\ \E i \in FetchIds :
          /\ fetches[i].state = "settled"
          /\ fetches[i].result.kind = "response"
          /\ fetches[i].result.status = 200
          /\ fetches[i].result.data = [content |-> Str("# Title")]
    /\ content = Str("# Title")

----------------------------------------------------------------------------
(* The carousel's pages *)

\* the records of pages p, p + 1, ..., one page after the other
RECURSIVE PagesFrom(_)
PagesFrom(p) ==
    IF p >= totalPages THEN <<>> ELSE PageSlice(Num(p)) \o PagesFrom(p + 1)

OnAPage == currentPage # NaN /\ currentPage.val \in 0..(totalPages - 1)

\* C21: the page shown holds the records at registry positions 4p to 4p+3
\* (counted from 0; fewer on the last page), in source order, and the pages
\* 0..totalPages-1 laid end to end are the registry, so that every record is
\* on exactly one page
C21_FourPerPage ==
    /\ OnAPage =>
            LET p == currentPage.val
                n == Min({ 4, Len(blogs) - 4 * p })
            IN  currentBlogs = [i \in 1..n |-> blogs[4 * p + i]]
    /\ PagesFrom(0) = blogs

\* the short last page of a registry of thirteen posts
C21_Witness ==
    /\ Len(blogs) = 13
    /\ currentPage = Num(3)
    /\ currentBlogs = << blogs[13] >>

\* C29: with at least one record, every press of next, previous or a dot
\* leaves currentPage an integer in 0..totalPages-1; next from the last page
\* goes to page 0 and previous from page 0 goes to the last page
C29_PageInRange ==
    [][ Len(blogs) >= 1 =>
            /\ currentPage' \in { Num(p) : p \in 0..(totalPages - 1) }
            /\ (nextPage /\ currentPage = Num(totalPages - 1))
                    => currentPage' = Num(0)
            /\ (prevPage /\ currentPage = Num(0))
                    => currentPage' = Num(totalPages - 1) ]_vars

\* the last of four pages, one press of previous away from page 0
C29_Witness ==
    /\ Len(blogs) = 13
    /\ totalPages = 4
    /\ currentPage = Num(totalPages - 1)

\* C30: with an empty registry totalPages is 0 and currentPage stays page 0
\* whatever is pressed
C30_EmptyRegistry ==
    Len(blogs) = 0 => (totalPages = 0 /\ currentPage = Num(0))

----------------------------------------------------------------------------
(* When the renderer's output is on the page *)

\* fetch i settled with a response whose content field is the string body
Loaded(i, body) ==
    /\ fetches[i].state = "settled"
    /\ fetches[i].result.kind = "response"
    /\ DataContent(fetches[i].result.data) = Str(body)

\* C22: whenever the page shows rendered post HTML, loading is false, the
\* body is a non-empty string, and the loader has resolved with that body:
\* no HTML is shown while loading or with an absent body
C22_HtmlOnlyWhenLoaded ==
    Html # Undefined =>
        /\ ~loading
        /\ content \notin { Null, Undefined, Str("") }
        /\ \E i \in FetchIds : Loaded(i, content.val)

\* a loaded body on display
C22_Witness ==
    /\ Html # Undefined
    /\ Contains(Html.val, ">Setup</h2>")
    /\ \E i \in FetchIds : Loaded(i, "## Setup")

\* the post's body is the empty string: inline, or fetched
EmptyInline == Inline(blog) /\ blog.content = Str("") /\ ~EffectPending
EmptyFetched == \E i \in FetchIds : Loaded(i, "")

\* C28: once the loader is done with a body that is the empty string, inline
\* or fetched, the page shows the placeholder and no rendered HTML
C28_EmptyIsAbsent ==
    (~loading /\ (EmptyInline \/ EmptyFetched)) =>
        (Body = "comingSoon" /\ View.body = "comingSoon" /\ Html = Undefined)

\* the placeholder after a fetch that brought the empty string
C28_Witness ==
    ~loading /\ EmptyFetched /\ content = Str("") /\ Body = "comingSoon"

----------------------------------------------------------------------------
(* The body shown under a post, and the end of loading *)

\* the body the registry and the content directory hold for the viewed post
OwnBody ==
    IF Truthy(blog.contentFile)
    THEN The({ IF read.ok THEN Str(read.text) ELSE Undefined :
                 read \in { ReadFile(blog.contentFile.val) } })
    ELSE blog.content

\* the fetch of the current view has been issued and has settled
ViewFetchSettled ==
    \E i \in FetchIds : fetches[i].view = view /\ fetches[i].state = "settled"

\* C25: a body displayed under a post is that post's own body; while a
\* post with a contentFile is viewed and its fetch has not settled the page
\* shows the loading state; and it shows the placeholder once that fetch has
\* failed
C25_OwnBody ==
    /\ Body = "article" => content = OwnBody
    /\ (blog # Undefined /\ Truthy(blog.contentFile) /\ ~ViewFetchSettled)
            => Body = "spinner"
    /\ \A i \in FetchIds :
          (fetches[i].view = view /\ fetches[i].state = "settled"
                /\ Failed(fetches[i])) => Body = "comingSoon"

\* the first post viewed had its body loaded; the second one's fetch was
\* rejected and the page shows the placeholder, not the first post's body
C25_Witness ==
    /\ view > 1
    /\ Truthy(ContentFileOf(blog))
    /\ Body = "comingSoon"
    /\ \E i, j \in FetchIds :
          /\ fetches[i].view = view
          /\ fetches[i].state = "settled"
          /\ fetches[i].result.kind = "error"
          /\ fetches[j].view # view
          /\ fetches[j].state = "settled"
          /\ fetches[j].result.kind = "response"
          /\ Truthy(DataContent(fetches[j].result.data))

\* a record with both an inline content and a contentFile
Both(b) == b # Undefined /\ IsStr(b.content) /\ Truthy(b.contentFile)

\* C26: under the fairness of SpecSite (every issued fetch settles), a view
\* in loading leaves loading; and loading is only ever ended by the effect or
\* by a step that settles a fetch: no timeout ends it
C26_LeavesLoading ==
    /\ loading ~> ~loading
    /\ [][(loading /\ ~loading') => (EffectRuns \/ \E i \in FetchIds : Settles(i))]_vars

\* loading ended by the catch handler of a failed fetch
C26_Witness ==
    /\ ~loading
    /\ view = 1
    /\ \E i \in FetchIds :
          /\ fetches[i].state = "settled"
          /\ fetches[i].result.kind = "error"

\* C27: for a record with both content and contentFile the effect issues the
\* fetch of the contentFile and leaves content alone, and in no state is the
\* record's inline content displayed under it, whether the fetch fails or
\* the answer has no content field
C27_ContentFileOnly ==
    [][/\ (EffectRuns /\ Both(blog)) =>
             /\ fetches' = Append(fetches, NewFetch(blog.contentFile.val))
             /\ content' = content
       /\ Both(blog') => ~(Body' = "article" /\ content' = blog'.content)]_vars

\* the record with both, after an answer without a content field
C27_Witness ==
    /\ Both(blog)
    /\ ~loading
    /\ content = Undefined
    /\ \E i \in FetchIds :
          /\ fetches[i].slug = slug
          /\ fetches[i].state = "settled"
          /\ fetches[i].result.kind = "response"
          /\ fetches[i].result.status = 404

----------------------------------------------------------------------------
(* Header levels, and the text of code blocks *)

\* how many times sub occurs in s, left to right without overlap
RECURSIVE CountOf(_, _)
CountOf(s, sub) ==
    LET i == IndexFrom(s, sub, 1)
    IN IF i = 0 THEN 0 ELSE 1 + CountOf(Drop(s, i + Len(sub) - 1), sub)

\* how many lines of a body start with a marker
LinesWith(md, marker) ==
    Cardinality({ k \in 1..Len(Lines(md)) : StartsWith(Lines(md)[k], marker) })

\* C23: in a displayed body without fenced code blocks, each line beginning
\* with "### " gives one h3 element, each line beginning with "## " one h2,
\* each line beginning with "# " one h1, and there is no other header
\* element: no line is converted twice
C23_OneHeaderPerLine ==
    (Displayed /\ ~Contains(content.val, Fence)) =>
        /\ CountOf(Shown, "<h3 id=") = LinesWith(content.val, "### ")
        /\ CountOf(Shown, "</h3>") = LinesWith(content.val, "### ")
        /\ CountOf(Shown, "<h2 id=") = LinesWith(content.val, "## ")
        /\ CountOf(Shown, "</h2>") = LinesWith(content.val, "## ")
        /\ CountOf(Shown, "<h1 class=") = LinesWith(content.val, "# ")
        /\ CountOf(Shown, "</h1>") = LinesWith(content.val, "# ")

\* a second-level header on display: one h2 and nothing of the other levels
C23_Witness ==
    /\ Displayed
    /\ content.val = "Intro\n## Setup\nBody"
    /\ CountOf(Shown, "<h2 id=") = 1
    /\ CountOf(Shown, "<h3 id=") = 0
    /\ CountOf(Shown, "<h1 class=") = 0

\* C24: when the displayed body opens with a fenced code block that the
\* renderer turns into a pre/code element, the HTML holds that element with
\* exactly the trimmed, escaped text of the block in it: the later passes
\* leave the code lines as they are
C24_CodeVerbatim ==
    Displayed =>
        LET open == IndexFrom(content.val, Fence, 1)
            m == CodeBlockAt(content.val, open)
        IN (open # 0 /\ m.found) =>
              Contains(Shown, CodeBlockHtml(m.lang, m.code))

====
